---- MODULE Spec2Model ----
(***************************************************************************)
(* Model of the generation history and its two pollers in the             *)
(* MusicGenerator component (src/unnamed/part_000): the React state        *)
(* `history`, the localStorage key HISTORY_KEY, the reconciliation effect  *)
(* (updateHistoryWithCompletedTasks), generateMusic with its own polling   *)
(* interval, and the user's remove / clear / reload.                       *)
(*                                                                         *)
(* Closures: a handler sees the `history` of the render it was created in. *)
(* A click handler runs in the latest render; the continuation of          *)
(* generateMusic after its await, and the interval callback it creates,    *)
(* keep the `history` of the render in which the button was clicked.       *)
(***************************************************************************)
EXTENDS Integers, Sequences, FiniteSets, TLC

\* ------------------------------------------------------------------ bounds
MaxGen      == 1   \* submissions (task ids issued) per run
MaxCycles   == 1   \* reconciliation cycles awaiting responses at once
MaxInflight == 2   \* status requests of one submission loop in flight at once
MaxTime     == 1   \* number of distinct clock readings after the first
MaxLen      == 3   \* items of a persisted list the store operations are tried on

\* --------------------------------------------------------- program constants
MAX_HISTORY_ITEMS == 5

\* ------------------------------------------------------------------ values
\* An optional JS value: {} is undefined (or an absent key), {v} is v.
NoVal == {}
Some(v) == {v}
IsSet(o) == o # {}
ValOf(o) == CHOOSE v \in o : TRUE

Undef == "<undefined>"                \* an undefined string-valued key

TaskIds == <<"t1", "t2", "t3">>       \* ids the server hands out, in order
OldId == "t0"                         \* id of an item of an earlier session
AllIds == {OldId} \cup {TaskIds[i] : i \in 1..Len(TaskIds)}

SongLists == {NoVal, Some(<<"s1">>)}            \* output.songs of a response
ErrorMsgs == {NoVal, Some("e1")}                   \* error?.message of a response
DefaultError == "Failed to generate music"

ValidStatus == {"pending", "completed", "failed"}

\* A history item (GenerationHistoryItem / HistoryItemInput).
Item(id, prompt, status, timestamp, completedAt, songs, error) ==
  [id |-> id, prompt |-> prompt, status |-> status, timestamp |-> timestamp,
   completedAt |-> completedAt, songs |-> songs, error |-> error]

\* ------------------------------------------------------------ localStorage
\* The value under HISTORY_KEY: no key, the empty text, text that is not JSON,
\* JSON that is not a list, or the JSON of a list of items.
NoKey == [kind |-> "absent", items |-> <<>>]
EmptyText == [kind |-> "empty", items |-> <<>>]
Corrupt == [kind |-> "corrupt", items |-> <<>>]
NotList == [kind |-> "notlist", items |-> <<>>]

\* JSON.stringify(list): keys whose value is undefined are dropped; an absent
\* key and an undefined one are both NoVal in an Item.
Stringify(list) == [kind |-> "list", items |-> list]

\* JSON.parse followed by a use as a list succeeds only on the JSON of a list.
Parses(st) == st.kind = "list"
Parse(st) == st.items

\* `if (savedHistory)` / `if (!savedHistory)` on what getItem returned: null
\* and the empty text are falsy (part_000:309, 367).
Falsy(st) == st.kind \in {"absent", "empty"}

VARIABLES
  phase,         \* "fresh" (constructed, effects not yet run), "mounted", "unmounted"
  history,       \* React state `history`
  storage,       \* localStorage[HISTORY_KEY]
  isLoading,     \* React state
  pendingCount,  \* React state
  notification,  \* React state: "none", "success", "error", "maintenance"
  notified,      \* completedTasksRef.current
  beeps,         \* calls of playSuccessBeep per task id (saturating at 2)
  timers,        \* number of live reconciliation intervals
  intervalId,    \* the current effect instance holds an interval
  cycles,        \* running updateHistoryWithCompletedTasks calls
  gens,          \* running generateMusic calls and their polling intervals
  remote,        \* the music service's record of each task
  issued,        \* task ids handed out so far
  now,           \* Date.now()
  ev             \* the last step taken

vars == <<phase, history, storage, isLoading, pendingCount, notification,
          notified, beeps, timers, intervalId, cycles, gens, remote, issued,
          now, ev>>

\* ------------------------------------------------------ the History Store
HasPending(list) == \E i \in DOMAIN list : list[i].status = "pending"

\* updateHistory's map: every item with id, prompt, a valid status and a
\* timestamp (part_000:349-358).  A timestamp of 0 stands for a falsy one.
NormalizeItemKeepStatus(item, t) ==
  [item EXCEPT !.id = IF @ = Undef THEN "" ELSE @,
               !.prompt = IF @ = Undef THEN "" ELSE @,
               !.timestamp = IF @ = 0 THEN t ELSE @]
NormalizeItem(item, t) ==
  [item EXCEPT !.id = IF @ = Undef THEN "" ELSE @,
               !.prompt = IF @ = Undef THEN "" ELSE @,
               !.status = IF @ \in ValidStatus THEN @ ELSE "pending",
               !.timestamp = IF @ = 0 THEN t ELSE @]

Normalize(list, t) == [i \in DOMAIN list |-> NormalizeItem(list[i], t)]

\* The load effect's map: a status other than completed / failed becomes
\* pending; nothing else is touched (part_000:313-318).
LoadedList(list) ==
  [i \in DOMAIN list |->
     [list[i] EXCEPT !.status = IF @ \in {"completed", "failed"} THEN @ ELSE "pending"]]

\* addToHistory: the new item, forced pending, in front of the `history` the
\* calling closure holds (part_000:427-435).
AddedList(item, hist) ==
  <<[item EXCEPT !.status = "pending", !.completedAt = NoVal]>> \o hist

\* removeFromHistory's filter (part_000:439).
RemovedListFirstOnly(hist, id) ==
  LET hits == {i \in DOMAIN hist : hist[i].id = id}
      k == IF hits = {} THEN 0 ELSE CHOOSE i \in hits : \A j \in hits : i <= j
  IN [i \in 1..(Len(hist) - (IF k = 0 THEN 0 ELSE 1)) |->
        IF k = 0 \/ i < k THEN hist[i] ELSE hist[i + 1]]
RemovedList(hist, id) == SelectSeq(hist, LAMBDA it : it.id # id)

\* { ...item, ...updates } for the two literal updates generateMusic passes:
\* the completed one sets status, songs, completedAt, timestamp; the failed
\* one sets status and error (part_000:637-642, 656-659).
Merge(item, upd) ==
  IF upd.status = "completed"
  THEN [item EXCEPT !.status = "completed", !.songs = upd.songs,
                    !.completedAt = upd.completedAt, !.timestamp = upd.timestamp]
  ELSE [item EXCEPT !.status = "failed", !.error = upd.error]

\* updateHistoryItem's map over the `history` its closure holds (part_000:883-887).
UpdatedList(hist, id, upd) ==
  [i \in DOMAIN hist |-> IF hist[i].id = id THEN Merge(hist[i], upd) ELSE hist[i]]

\* ------------------------------------------------------ the music service
\* A status response: ok = FALSE is a request that failed.
FailResp == [ok |-> FALSE, status |-> "", songs |-> NoVal, error |-> NoVal,
             startedAt |-> NoVal, endedAt |-> NoVal]

MetaTimes == {NoVal, Some(1)}

\* The answers a status request for `id` can get now: a failure, or the task's
\* status; a completed task comes with or without output.songs, a failed one
\* with or without error.message, both with or without meta times.
Responses(id) ==
  {FailResp} \cup
  (IF id \in DOMAIN remote /\ remote[id] # "none"
   THEN {[ok |-> TRUE, status |-> remote[id], songs |-> sl, error |-> e,
          startedAt |-> s, endedAt |-> t] :
            sl \in (IF remote[id] = "completed" THEN SongLists ELSE {NoVal}),
            e \in (IF remote[id] = "failed" THEN ErrorMsgs ELSE {NoVal}),
            s \in MetaTimes, t \in MetaTimes}
   ELSE {})

\* The statuses on which either poller acts (part_000:378-381, 618, 651).
IsTerminalAnyOk(resp) == resp.ok
IsTerminal(resp) == resp.ok /\ resp.status \in {"completed", "failed"}

\* -------------------------------------------- the reconciliation poller
\* What the map callback of updateHistoryWithCompletedTasks returns for a
\* pending item once fetchTaskDetails has answered (part_000:376-396).
ReconItem(item, resp, t) ==
  IF resp.ok /\ resp.status = "completed"
  THEN [item EXCEPT !.status = "completed",
                    !.songs = IF IsSet(resp.songs) THEN resp.songs ELSE Some(<<>>),
                    !.error = NoVal,
                    !.completedAt = Some(t)]
  ELSE IF resp.ok /\ resp.status = "failed"
  THEN [item EXCEPT !.status = "failed",
                    !.songs = NoVal,
                    !.error = resp.error,
                    !.completedAt = Some(t)]
  ELSE item

PendingIdx(list) == {i \in DOMAIN list : list[i].status = "pending"}

\* A call of updateHistoryWithCompletedTasks: it returns at once without the
\* key, dies on a value that is no list, and otherwise awaits one status
\* request per pending item of the persisted list (part_000:366-398).  A call
\* with nothing to await writes nothing and leaves no trace.  Only MaxCycles
\* calls are followed at a time: a further one is a call whose requests stay
\* unanswered for the rest of the run.
StartCycle(st, cyc) ==
  IF Falsy(st) \/ ~Parses(st) \/ PendingIdx(Parse(st)) = {}
     \/ Len(cyc) >= MaxCycles
  THEN cyc
  ELSE Append(cyc, [out |-> Parse(st), asked |-> PendingIdx(Parse(st)),
                    waiting |-> PendingIdx(Parse(st)), hasUpdates |-> FALSE])

Bump(b, id) == [b EXCEPT ![id] = IF @ < 2 THEN @ + 1 ELSE @]

RemoveAt(seq, k) == [i \in 1..(Len(seq) - 1) |-> IF i < k THEN seq[i] ELSE seq[i + 1]]

\* The reconciliation effect run for a new `history`: the previous instance's
\* cleanup, then an immediate check and a 5 s interval when an item is pending
\* (part_000:406-424).
EffectCycles(hist, st, cyc) == IF HasPending(hist) THEN StartCycle(st, cyc) ELSE cyc
EffectTimersNoCleanup(hist) == timers + (IF HasPending(hist) THEN 1 ELSE 0)
EffectTimers(hist) ==
  timers - (IF intervalId THEN 1 ELSE 0) + (IF HasPending(hist) THEN 1 ELSE 0)

\* updateHistory(list) with `cyc` the running cycles: setHistory and
\* localStorage.setItem (part_000:348-361), then the effect.  setHistory on an
\* unmounted component does nothing.
Commit(list, cyc) ==
  LET valid == Normalize(list, now)
      st == Stringify(valid)
  IN /\ storage' = st
     /\ IF phase = "mounted"
        THEN /\ history' = valid
             /\ cycles' = EffectCycles(valid, st, cyc)
             /\ intervalId' = HasPending(valid)
             /\ timers' = EffectTimers(valid)
        ELSE /\ cycles' = cyc
             /\ UNCHANGED <<history, intervalId, timers>>

\* The record of the last step when it was a poller receiving a terminal
\* status (the poller, the task id, the status, the song list the response
\* carried and whether the step called updateHistory) or the user removing an
\* item or clearing the list.  NoEv after any other step of the program.
NoEv == [op |-> "other", id |-> "", obs |-> "", songs |-> NoVal, wrote |-> FALSE]
Ev(op, id, obs, songs, wrote) ==
  IF (op \in {"poll", "recon"} /\ obs \in {"completed", "failed"})
     \/ op \in {"remove", "clear"}
  THEN [op |-> op, id |-> id, obs |-> obs, songs |-> songs, wrote |-> wrote]
  ELSE NoEv

\* ------------------------------------------------------------ initial state
OldItem(status) == Item(OldId, "p", status, 1, NoVal, NoVal, NoVal)
DoneItem(id) == Item(id, "p", "completed", 1, Some(1), Some(<<"s1">>), NoVal)

\* What an earlier session may have left under the key.
InitStorages ==
  {NoKey, EmptyText, Corrupt, NotList, Stringify(<<>>),
   Stringify(<<OldItem("pending")>>), Stringify(<<OldItem("processing")>>)}

\* A key already holding MAX_HISTORY_ITEMS finished items.
FullStorage ==
  Stringify(<<DoneItem("h5"), DoneItem("h4"), DoneItem("h3"), DoneItem("h2"),
              DoneItem("h1")>>)

\* The service's status of a task; "none" is a task it does not know.
NoTask == "none"
Processing == "processing"

InitWith(st) ==
  /\ phase = "fresh"
  /\ history = <<>>
  /\ storage = st
  /\ isLoading = FALSE
  /\ pendingCount = 0
  /\ notification = "none"
  /\ notified = {}
  /\ beeps = [id \in AllIds |-> 0]
  /\ timers = 0
  /\ intervalId = FALSE
  /\ cycles = <<>>
  /\ gens = <<>>
  /\ remote = [id \in AllIds |->
                 IF id = OldId /\ st.items # <<>> THEN Processing ELSE NoTask]
  /\ issued = 0
  /\ now = 1
  /\ ev = Ev("init", "", "", NoVal, FALSE)

Init == \E st \in InitStorages : InitWith(st)

\* ---------------------------------------------------------------- lifecycle
\* First render and its effects: the load effect (part_000:306-326), then the
\* reconciliation effect for the loaded history.
Mount ==
  /\ phase = "fresh"
  /\ phase' = "mounted"
  /\ IF Falsy(storage)
     THEN UNCHANGED <<history, storage, cycles, intervalId, timers>>
     ELSE IF Parses(storage)
     THEN /\ history' = LoadedList(Parse(storage))
          /\ cycles' = EffectCycles(LoadedList(Parse(storage)), storage, cycles)
          /\ intervalId' = HasPending(LoadedList(Parse(storage)))
          /\ timers' = EffectTimers(LoadedList(Parse(storage)))
          /\ UNCHANGED storage
     ELSE /\ storage' = NoKey
          /\ UNCHANGED <<history, cycles, intervalId, timers>>
  /\ ev' = Ev("mount", "", "", NoVal, FALSE)
  /\ UNCHANGED <<isLoading, pendingCount, notification, notified, beeps, gens,
                 remote, issued, now>>

\* The view is discarded: the effect's cleanup clears its interval
\* (part_000:419-423).  Nothing else is cancelled.
UnmountNoCleanup ==
  /\ phase = "mounted"
  /\ phase' = "unmounted"
  /\ ev' = Ev("unmount", "", "", NoVal, FALSE)
  /\ UNCHANGED <<history, storage, isLoading, pendingCount, notification, timers,
                 intervalId, notified, beeps, cycles, gens, remote, issued, now>>
Unmount ==
  /\ phase = "mounted"
  /\ phase' = "unmounted"
  /\ timers' = timers - (IF intervalId THEN 1 ELSE 0)
  /\ intervalId' = FALSE
  /\ ev' = Ev("unmount", "", "", NoVal, FALSE)
  /\ UNCHANGED <<history, storage, isLoading, pendingCount, notification,
                 notified, beeps, cycles, gens, remote, issued, now>>

\* The page is loaded again: every timer and pending callback is gone, the
\* component is constructed anew, localStorage is what it was.
Reload ==
  /\ phase # "fresh"
  /\ phase' = "fresh"
  /\ history' = <<>>
  /\ isLoading' = FALSE
  /\ pendingCount' = 0
  /\ notification' = "none"
  /\ notified' = {}
  /\ beeps' = [id \in AllIds |-> 0]
  /\ timers' = 0
  /\ intervalId' = FALSE
  /\ cycles' = <<>>
  /\ gens' = <<>>
  /\ ev' = Ev("reload", "", "", NoVal, FALSE)
  /\ UNCHANGED <<storage, remote, issued, now>>

\* ------------------------------------------------------------ generateMusic
\* The generate button: disabled={isLoading || pendingCount > 0} (part_000:1170).
GenerateEnabled == ~(isLoading \/ pendingCount > 0)

Posting == {g \in DOMAIN gens : gens[g].st = "posting"}

\* selectedOptions.voiceType: '' until the user picks one of the two options
\* (part_000:291, 944-959).
VoiceTypes == {"", "female", "male"}

FemaleTags == <<"female_vocals", "female_voice", "female_singer">>
MaleTags == <<"male_vocals", "male_voice", "male_singer">>

\* Array.prototype.join(',').
RECURSIVE Join(_)
Join(list) ==
  IF list = <<>> THEN ""
  ELSE IF Len(list) = 1 THEN list[1]
  ELSE list[1] \o "," \o Join(Tail(list))

\* voiceTags and negativeTags (part_000:554-560).
NegativeTagsSame(voiceType) == IF voiceType = "female" THEN FemaleTags ELSE MaleTags
VoiceTags(voiceType) == IF voiceType = "female" THEN FemaleTags ELSE MaleTags
NegativeTags(voiceType) == IF voiceType = "female" THEN MaleTags ELSE FemaleTags

\* The voice part of requestData.input (part_000:567-579), with the voice
\* type it was built for.  NoRequest once the POST has been answered.
Request(voiceType) ==
  [voiceType |-> voiceType,
   tags |-> Join(VoiceTags(voiceType)),
   negative_tags |-> Join(NegativeTags(voiceType))]
NoRequest == [voiceType |-> "", tags |-> "", negative_tags |-> ""]

\* VITE_APP_ENABLED === 'true' in the build that renders the page; the other
\* build renders MaintenanceMessage only (part_000:24, 893-895).
APP_ENABLED == TRUE

\* generateMusic up to its await of the POST (part_000:543-590).  The call
\* keeps the `history` of the render it was created in.
GenerateMusicNoReturn(enabled, voiceType) ==
  /\ isLoading' = TRUE
  /\ gens' = Append(gens, [taskId |-> "", startTime |-> now, capHist |-> history,
                           st |-> "posting", inflight |-> 0,
                           req |-> Request(voiceType)])
  /\ notification' = IF enabled THEN notification ELSE "maintenance"
  /\ ev' = Ev("generate", "", "", NoVal, FALSE)
  /\ UNCHANGED <<phase, history, storage, pendingCount, notified,
                 beeps, timers, intervalId, cycles, remote, issued, now>>
GenerateMusic(enabled, voiceType) ==
  IF ~enabled
  THEN /\ notification' = "maintenance"
       /\ ev' = Ev("generate", "", "", NoVal, FALSE)
       /\ UNCHANGED <<phase, history, storage, isLoading, pendingCount, notified,
                      beeps, timers, intervalId, cycles, gens, remote, issued, now>>
  ELSE /\ isLoading' = TRUE
       /\ gens' = Append(gens, [taskId |-> "", startTime |-> now, capHist |-> history,
                                st |-> "posting", inflight |-> 0,
                                req |-> Request(voiceType)])
       /\ ev' = Ev("generate", "", "", NoVal, FALSE)
       /\ UNCHANGED <<phase, history, storage, pendingCount, notification, notified,
                      beeps, timers, intervalId, cycles, remote, issued, now>>

\* A click on the button (part_000:1167-1171).
Generate ==
  /\ phase = "mounted"
  /\ GenerateEnabled
  /\ issued + Cardinality(Posting) < MaxGen
  /\ \E voiceType \in VoiceTypes : GenerateMusic(APP_ENABLED, voiceType)

\* The item generateMusic builds (part_000:595-601).
NewItem(id, startTime) == Item(id, "p", "pending", startTime, NoVal, NoVal, NoVal)

\* The POST succeeds with response.data.task_id = id: addToHistory,
\* pendingCount + 1, and the polling interval is created (part_000:592-607).
\* The service starts a task for an id it has not used before.
PostOkWith(g, id) ==
  /\ remote' = IF id \in DOMAIN remote /\ remote[id] = NoTask
                THEN [remote EXCEPT ![id] = Processing] ELSE remote
  /\ gens' = [gens EXCEPT ![g].taskId = id, ![g].st = "polling", ![g].req = NoRequest]
  /\ Commit(AddedList(NewItem(id, gens[g].startTime), gens[g].capHist), cycles)
  /\ ev' = Ev("add", id, "", NoVal, TRUE)
  /\ issued' = issued + 1
  /\ pendingCount' = IF phase = "mounted" THEN pendingCount + 1 ELSE pendingCount
  /\ UNCHANGED <<phase, isLoading, notification, notified, beeps, now>>

\* The POST succeeds and the service hands out its next unused id.
PostOk(g) ==
  /\ gens[g].st = "posting"
  /\ issued < Len(TaskIds)
  /\ PostOkWith(g, TaskIds[issued + 1])

\* The POST succeeds with whatever the response holds under task_id: the next
\* unused id, the id of a task the service already has, or nothing.
KnownIds == {id \in AllIds : remote[id] # NoTask}
PostOkAny(g) ==
  /\ gens[g].st = "posting"
  /\ issued < Len(TaskIds)
  /\ \E id \in {TaskIds[issued + 1], Undef} \cup KnownIds : PostOkWith(g, id)

\* The POST is rejected: the catch block (part_000:674-685).
PostFailKeepsLoading(g) ==
  /\ gens[g].st = "posting"
  /\ gens' = RemoveAt(gens, g)
  /\ notification' = IF phase = "mounted" THEN "error" ELSE notification
  /\ ev' = Ev("postfail", "", "", NoVal, FALSE)
  /\ UNCHANGED <<phase, history, storage, isLoading, pendingCount, notified, beeps,
                 timers, intervalId, cycles, remote, issued, now>>
PostFail(g) ==
  /\ gens[g].st = "posting"
  /\ gens' = RemoveAt(gens, g)
  /\ isLoading' = IF phase = "mounted" THEN FALSE ELSE isLoading
  /\ notification' = IF phase = "mounted" THEN "error" ELSE notification
  /\ ev' = Ev("postfail", "", "", NoVal, FALSE)
  /\ UNCHANGED <<phase, history, storage, pendingCount, notified, beeps, timers,
                 intervalId, cycles, remote, issued, now>>

\* The polling interval fires: a status request goes out (part_000:607-614).
PollTick(g) ==
  /\ gens[g].st = "polling"
  /\ gens[g].inflight < MaxInflight
  /\ gens' = [gens EXCEPT ![g].inflight = @ + 1]
  /\ UNCHANGED <<phase, history, storage, isLoading, pendingCount, notification,
                 notified, beeps, timers, intervalId, cycles, remote, issued, now, ev>>

\* The updates the interval callback passes to updateHistoryItem
\* (part_000:628-642, 656-659).
PollUpdate(resp, startTime, t) ==
  [status |-> resp.status,
   songs |-> resp.songs,
   completedAt |-> Some(IF IsSet(resp.endedAt) THEN ValOf(resp.endedAt) ELSE t),
   timestamp |-> IF IsSet(resp.startedAt) THEN ValOf(resp.startedAt) ELSE startTime,
   error |-> Some(IF IsSet(resp.error) THEN ValOf(resp.error) ELSE DefaultError)]

\* The interval callback's clearInterval: the interval is gone; the loop's
\* record goes with its last outstanding request.
AfterResponse(g, stop) ==
  LET st == IF stop THEN "stopped" ELSE gens[g].st
  IN IF st = "stopped" /\ gens[g].inflight = 1
     THEN RemoveAt(gens, g)
     ELSE [gens EXCEPT ![g].st = st, ![g].inflight = @ - 1]

\* A status request of the polling interval is answered (part_000:608-671).
PollResp(g, resp) ==
  /\ gens[g].inflight > 0
  /\ resp \in Responses(gens[g].taskId)
  /\ gens' = AfterResponse(g, IsTerminal(resp))
  /\ IF IsTerminal(resp)
     THEN /\ pendingCount' = IF phase = "mounted" THEN pendingCount - 1 ELSE pendingCount
          /\ IF resp.status = "completed" /\ gens[g].taskId \notin notified
             THEN /\ beeps' = Bump(beeps, gens[g].taskId)
                  /\ notified' = notified \cup {gens[g].taskId}
             ELSE UNCHANGED <<beeps, notified>>
          /\ Commit(UpdatedList(gens[g].capHist, gens[g].taskId,
                                PollUpdate(resp, gens[g].startTime, now)), cycles)
          /\ notification' = IF phase # "mounted" THEN notification
                             ELSE IF resp.status = "completed" THEN "success" ELSE "error"
          /\ isLoading' = IF phase = "mounted" THEN FALSE ELSE isLoading
     ELSE UNCHANGED <<history, storage, cycles, intervalId, timers, pendingCount,
                      beeps, notified, notification, isLoading>>
  /\ ev' = Ev("poll", gens[g].taskId, IF resp.ok THEN resp.status ELSE "error",
              resp.songs, IsTerminal(resp))
  /\ UNCHANGED <<phase, remote, issued, now>>

\* ------------------------------------------------- reconciliation poller
\* The 5 s interval of the reconciliation effect fires (part_000:416).
TimerTick ==
  /\ timers > 0
  /\ cycles' = StartCycle(storage, cycles)
  /\ cycles' # cycles
  /\ UNCHANGED <<phase, history, storage, isLoading, pendingCount, notification,
                 notified, beeps, timers, intervalId, gens, remote, issued, now, ev>>

\* fetchTaskDetails answers for item i of cycle c (part_000:376-396); with the
\* last answer Promise.all resolves and the cycle writes back if anything
\* resolved (part_000:400-403).
RecResp(c, i, resp) ==
  /\ i \in cycles[c].waiting
  /\ resp \in Responses(cycles[c].out[i].id)
  /\ LET cyc == [out |-> [cycles[c].out EXCEPT ![i] = ReconItem(@, resp, now)],
                 asked |-> cycles[c].asked,
                 waiting |-> cycles[c].waiting \ {i},
                 hasUpdates |-> cycles[c].hasUpdates \/ IsTerminal(resp)]
         done == cyc.waiting = {}
     IN /\ IF done /\ cyc.hasUpdates
           THEN Commit(cyc.out, RemoveAt(cycles, c))
           ELSE /\ cycles' = IF done THEN RemoveAt(cycles, c)
                             ELSE [cycles EXCEPT ![c] = cyc]
                /\ UNCHANGED <<history, storage, intervalId, timers>>
        /\ ev' = Ev("recon", cycles[c].out[i].id,
                    IF resp.ok THEN resp.status ELSE "error", resp.songs,
                    done /\ cyc.hasUpdates)
  /\ beeps' = IF resp.ok /\ resp.status = "completed"
              THEN Bump(beeps, cycles[c].out[i].id) ELSE beeps
  /\ UNCHANGED <<phase, isLoading, pendingCount, notification, notified, gens,
                 remote, issued, now>>

\* ------------------------------------------------------------------ the user
\* removeFromHistory(id), called in the latest render (part_000:438-441).
RemoveFromHistory(id) ==
  /\ phase = "mounted"
  /\ Commit(RemovedList(history, id), cycles)
  /\ ev' = Ev("remove", id, "", NoVal, TRUE)
  /\ UNCHANGED <<phase, isLoading, pendingCount, notification, notified, beeps,
                 gens, remote, issued, now>>

\* The remove button of a listed item (part_000:1288).
Remove(id) ==
  /\ \E i \in DOMAIN history : history[i].id = id
  /\ RemoveFromHistory(id)

\* "Clear All", shown when history.length > 1 (part_000:1216-1222, 443-446).
ClearKeepsNotified ==
  /\ phase = "mounted"
  /\ Len(history) > 1
  /\ Commit(<<>>, cycles)
  /\ ev' = Ev("clear", "", "", NoVal, TRUE)
  /\ UNCHANGED <<phase, isLoading, pendingCount, notification, gens, remote,
                 issued, now, notified, beeps>>
Clear ==
  /\ phase = "mounted"
  /\ Len(history) > 1
  /\ Commit(<<>>, cycles)
  /\ notified' = {}
  /\ beeps' = [id \in AllIds |-> 0]
  /\ ev' = Ev("clear", "", "", NoVal, TRUE)
  /\ UNCHANGED <<phase, isLoading, pendingCount, notification, gens, remote,
                 issued, now>>

\* ------------------------------------------------------------- environment
\* The remote task finishes.
RemoteResolve(id) ==
  /\ remote[id] = "processing"
  /\ \E st \in {"completed", "failed"} : remote' = [remote EXCEPT ![id] = st]
  /\ UNCHANGED <<phase, history, storage, isLoading, pendingCount, notification,
                 notified, beeps, timers, intervalId, cycles, gens, issued, now, ev>>

\* Time passes.
Tick ==
  /\ now < 1 + MaxTime
  /\ now' = now + 1
  /\ UNCHANGED <<phase, history, storage, isLoading, pendingCount, notification,
                 notified, beeps, timers, intervalId, cycles, gens, remote, issued, ev>>

Next ==
  \/ Mount
  \/ Unmount
  \/ Reload
  \/ Generate
  \/ \E g \in DOMAIN gens : PostOk(g)
  \/ \E g \in DOMAIN gens : PostFail(g)
  \/ \E g \in DOMAIN gens : PollTick(g)
  \/ \E g \in DOMAIN gens : \E resp \in Responses(gens[g].taskId) : PollResp(g, resp)
  \/ TimerTick
  \/ \E c \in DOMAIN cycles : \E i \in cycles[c].waiting :
       \E resp \in Responses(cycles[c].out[i].id) : RecResp(c, i, resp)
  \/ \E id \in {history[i].id : i \in DOMAIN history} : Remove(id)
  \/ Clear
  \/ \E id \in AllIds : RemoteResolve(id)
  \/ Tick

Spec == Init /\ [][Next]_vars

\* A session that starts on a key already holding MAX_HISTORY_ITEMS items, in
\* which the user submits and clears but removes no single item and stays on
\* the page.
InitFull == InitWith(FullStorage)
NextFull ==
  \/ Mount
  \/ Generate
  \/ \E g \in DOMAIN gens : PostOk(g)
  \/ \E g \in DOMAIN gens : PostFail(g)
  \/ \E g \in DOMAIN gens : PollTick(g)
  \/ \E g \in DOMAIN gens : \E resp \in Responses(gens[g].taskId) : PollResp(g, resp)
  \/ TimerTick
  \/ \E c \in DOMAIN cycles : \E i \in cycles[c].waiting :
       \E resp \in Responses(cycles[c].out[i].id) : RecResp(c, i, resp)
  \/ Clear
  \/ \E id \in AllIds : RemoteResolve(id)
SpecFull == InitFull /\ [][NextFull]_vars

\* removeFromHistory on its own: the page is loaded on a list an earlier
\* session saved, of up to MaxLen items, ids repeated or not, and the function
\* is called with any id, listed or not.
FailedItem(id) == Item(id, "p", "failed", 1, Some(1), NoVal, Some("e1"))
WrittenItems ==
  UNION {{Item(id, "p", "pending", 1, NoVal, NoVal, NoVal), DoneItem(id), FailedItem(id)} :
           id \in {OldId, TaskIds[1]}}
ListsUpTo(S, n) == UNION {[1..k -> S] : k \in 0..n}
InitStore == \E list \in ListsUpTo(WrittenItems, MaxLen) : InitWith(Stringify(list))
NextStore ==
  \/ Mount
  \/ \E id \in AllIds : RemoveFromHistory(id)
SpecStore == InitStore /\ [][NextStore]_vars

\* A session on one page load that starts on a key another version of the page
\* wrote: next to a pending item, an item with an unknown status and no
\* timestamp, and an item with no key set at all.  The user removes and clears
\* but submits nothing.
UnknownItem == Item(OldId, "p", "processing", 0, NoVal, NoVal, NoVal)
NoKeysItem == Item(Undef, Undef, Undef, 0, NoVal, NoVal, NoVal)
LegacyStorages ==
  {Stringify(<<UnknownItem>>),
   Stringify(<<OldItem("pending"), UnknownItem>>),
   Stringify(<<NoKeysItem, OldItem("pending")>>)}
InitLegacy == \E st \in LegacyStorages : InitWith(st)
NextLegacy ==
  \/ Mount
  \/ TimerTick
  \/ \E c \in DOMAIN cycles : \E i \in cycles[c].waiting :
       \E resp \in Responses(cycles[c].out[i].id) : RecResp(c, i, resp)
  \/ \E id \in {history[i].id : i \in DOMAIN history} : Remove(id)
  \/ Clear
  \/ \E id \in AllIds : RemoteResolve(id)
  \/ Tick
SpecLegacy == InitLegacy /\ [][NextLegacy]_vars

\* A session on one page load in which the service's POST response may repeat
\* a task id or carry none, on a key that is absent or holds one pending item,
\* with a task id or with the empty id updateHistory gives an item that had
\* none.
NoIdItem == Item("", "p", "pending", 1, NoVal, NoVal, NoVal)
InitIds ==
  \E st \in {NoKey, Stringify(<<OldItem("pending")>>), Stringify(<<NoIdItem>>)} :
    InitWith(st)
NextIds ==
  \/ Mount
  \/ Generate
  \/ \E g \in DOMAIN gens : PostOkAny(g)
  \/ \E g \in DOMAIN gens : PostFail(g)
  \/ \E g \in DOMAIN gens : PollTick(g)
  \/ \E g \in DOMAIN gens : \E resp \in Responses(gens[g].taskId) : PollResp(g, resp)
  \/ TimerTick
  \/ \E c \in DOMAIN cycles : \E i \in cycles[c].waiting :
       \E resp \in Responses(cycles[c].out[i].id) : RecResp(c, i, resp)
  \/ \E id \in {history[i].id : i \in DOMAIN history} : Remove(id)
  \/ Clear
  \/ \E id \in AllIds : RemoteResolve(id)
  \/ Tick
SpecIds == InitIds /\ [][NextIds]_vars

\* The build with VITE_APP_ENABLED unset: the effects run, the page shows
\* MaintenanceMessage alone (part_000:893-895), so the list has no buttons,
\* and generateMusic is called with APP_ENABLED false.
CallGenerateMusicOff ==
  /\ phase = "mounted"
  /\ \E voiceType \in VoiceTypes : GenerateMusic(FALSE, voiceType)
NextOff ==
  \/ Mount
  \/ Unmount
  \/ Reload
  \/ CallGenerateMusicOff
  \/ TimerTick
  \/ \E c \in DOMAIN cycles : \E i \in cycles[c].waiting :
       \E resp \in Responses(cycles[c].out[i].id) : RecResp(c, i, resp)
  \/ \E id \in AllIds : RemoteResolve(id)
  \/ Tick
SpecOff == Init /\ [][NextOff]_vars

\* A session followed up to the answer of each POST: the user submits, the
\* service accepts or rejects, the page may be loaded again.
NextSubmit ==
  \/ Mount
  \/ Reload
  \/ Generate
  \/ \E g \in DOMAIN gens : PostOk(g)
  \/ \E g \in DOMAIN gens : PostFail(g)
  \/ Tick
SpecSubmit == Init /\ [][NextSubmit]_vars

\* A session without submissions: the list an earlier session left is
\* loaded, reconciled, edited by the user, and the page is left or loaded
\* again.
InitTimer == \E st \in InitStorages \cup LegacyStorages : InitWith(st)
NextTimer ==
  \/ Mount
  \/ Unmount
  \/ Reload
  \/ TimerTick
  \/ \E c \in DOMAIN cycles : \E i \in cycles[c].waiting :
       \E resp \in Responses(cycles[c].out[i].id) : RecResp(c, i, resp)
  \/ \E id \in {history[i].id : i \in DOMAIN history} : Remove(id)
  \/ Clear
  \/ \E id \in AllIds : RemoteResolve(id)
  \/ Tick
SpecTimer == InitTimer /\ [][NextTimer]_vars

\* A session in which the user only submits (nothing is removed or cleared,
\* the page stays open), on a key that is absent or holds a pending item,
\* under the scheduling the browser and the service give: a live interval
\* keeps firing, the service finishes every task, and a status request that
\* can be answered with the task's status eventually is.
InitLive == \E st \in {NoKey, Stringify(<<OldItem("pending")>>)} : InitWith(st)
NextLive ==
  \/ Mount
  \/ Generate
  \/ \E g \in DOMAIN gens : PostOk(g)
  \/ \E g \in DOMAIN gens : PostFail(g)
  \/ \E g \in DOMAIN gens : PollTick(g)
  \/ \E g \in DOMAIN gens : \E resp \in Responses(gens[g].taskId) : PollResp(g, resp)
  \/ TimerTick
  \/ \E c \in DOMAIN cycles : \E i \in cycles[c].waiting :
       \E resp \in Responses(cycles[c].out[i].id) : RecResp(c, i, resp)
  \/ \E id \in AllIds : RemoteResolve(id)
  \/ Tick
Answered ==
  \/ \E g \in DOMAIN gens : \E resp \in Responses(gens[g].taskId) :
       resp.ok /\ PollResp(g, resp)
  \/ \E c \in DOMAIN cycles : \E i \in cycles[c].waiting :
       \E resp \in Responses(cycles[c].out[i].id) : resp.ok /\ RecResp(c, i, resp)
Fairness ==
  /\ WF_vars(Mount)
  /\ WF_vars(TimerTick)
  /\ WF_vars(\E g \in DOMAIN gens : PollTick(g))
  /\ WF_vars(\E g \in DOMAIN gens : PostOk(g))
  /\ WF_vars(\E id \in AllIds : RemoteResolve(id))
  /\ SF_vars(Answered)
SpecLive == InitLive /\ [][NextLive]_vars /\ Fairness

\* ------------------------------------------------------------------ claims
Ids(list) == {list[i].id : i \in DOMAIN list}
Stored == Parse(storage)

HoldsCompleted(list, id, songs) ==
  \E i \in DOMAIN list :
    /\ list[i].id = id
    /\ list[i].status = "completed"
    /\ list[i].songs = (IF IsSet(songs) THEN songs ELSE Some(<<>>))

\* C1: whenever a status check of either poller returns completed with song
\* list S and the poller has written back, the history in memory and in
\* local storage holds an item of that id, completed, with songs S (the empty
\* list when the response carried none).
C1_CompletedIsStored ==
  (phase = "mounted" /\ ev.obs = "completed" /\ ev.wrote) =>
    /\ HoldsCompleted(history, ev.id, ev.songs)
    /\ HoldsCompleted(Stored, ev.id, ev.songs)

\* C2: an item whose status is completed or failed keeps that status in every
\* step that leaves an item of its id in the history.
C2_TerminalIsFinal ==
  [][\A i \in DOMAIN history :
       history[i].status \in {"completed", "failed"} =>
         \A j \in DOMAIN history' :
           history'[j].id = history[i].id => history'[j].status = history[i].status]_vars

\* C3: an id leaves the in-memory or the persisted list only in a step of
\* removeFromHistory for that id or of clearHistory (the in-memory list is
\* also emptied when the page is loaded again).
C3_OnlyUserRemoves ==
  [][(Ids(history) \ Ids(history') # {} \/ Ids(Stored) \ Ids(Stored') # {}) =>
       \/ Clear
       \/ Reload
       \/ \E id \in Ids(history) :
            /\ Remove(id)
            /\ Ids(history) \ Ids(history') \subseteq {id}
            /\ Ids(Stored) \ Ids(Stored') \subseteq {id}]_vars

OthersKept(own) ==
  \A i \in DOMAIN history :
    history[i].id \notin own => \E j \in DOMAIN history' : history'[j] = history[i]

\* C4: a write of the store made for one task id (the add of a new item, a
\* terminal update by the submission's loop, the write-back of a
\* reconciliation cycle for the ids it asked about) leaves the items of every
\* other id in the history, unchanged.
C4_WritesMergeById ==
  [][phase = "mounted" =>
       /\ \A g \in DOMAIN gens :
            PostOk(g) => OthersKept({TaskIds[issued + 1]})
       /\ \A g \in DOMAIN gens : \A resp \in Responses(gens[g].taskId) :
            (PollResp(g, resp) /\ IsTerminal(resp)) => OthersKept({gens[g].taskId})
       /\ \A c \in DOMAIN cycles : \A i \in cycles[c].waiting :
            \A resp \in Responses(cycles[c].out[i].id) :
              (RecResp(c, i, resp) /\ ev'.wrote) =>
                OthersKept({cycles[c].out[k].id : k \in cycles[c].asked})]_vars

\* C5: the stored list never holds more than MAX_HISTORY_ITEMS items.
C5_AtMostMaxItems ==
  /\ Len(history) <= MAX_HISTORY_ITEMS
  /\ Len(Stored) <= MAX_HISTORY_ITEMS

\* C6: while a history item is pending the generate button is disabled.
C6_PendingDisablesGenerate ==
  (phase = "mounted" /\ HasPending(history)) => ~GenerateEnabled

PendingIn(list, id) == \E i \in DOMAIN list : list[i].id = id /\ list[i].status = "pending"
TerminalIn(list, id) ==
  \E i \in DOMAIN list : list[i].id = id /\ list[i].status = remote[id]

\* C7: a pending item whose remote task has finished eventually shows the
\* task's terminal status in the history.
C7_PendingEventuallyResolved ==
  \A id \in AllIds :
    (phase = "mounted" /\ PendingIn(history, id)
       /\ remote[id] \in {"completed", "failed"})
    ~> TerminalIn(history, id)

\* C8: the success tone is played at most once per task id between two resets
\* of the de-duplication set.
C8_OneTonePerTask == \A id \in AllIds : beeps[id] <= 1

\* C9: a reconciliation interval is live exactly when the component is mounted
\* and its history holds a pending item.
C9_TimerIffPending ==
  (timers > 0) <=> (phase = "mounted" /\ HasPending(history))

\* C9 witness: a poller's write-back has resolved the last pending item of a
\* mounted component and the interval is gone.
C9_Witness ==
  /\ phase = "mounted"
  /\ ev.wrote
  /\ history # <<>>
  /\ ~HasPending(history)
  /\ timers = 0

\* C10: a submission's loop that has observed a terminal status applies no
\* further update: an answer that reaches it afterwards leaves the history,
\* the persisted list, pendingCount and the notification as they are.
C10_StoppedLoopIsSilent ==
  [][\A g \in DOMAIN gens : \A resp \in Responses(gens[g].taskId) :
       (gens[g].st = "stopped" /\ PollResp(g, resp)) =>
         UNCHANGED <<history, storage, pendingCount, notification, isLoading>>]_vars

\* The item of `id` in `list` already shows the terminal state `resp` reports:
\* the same status and, for completed, the song list (an absent one counts as
\* the empty list), for failed, the error message.
AlreadyIn(list, id, resp) ==
  \E i \in DOMAIN list :
    /\ list[i].id = id
    /\ list[i].status = resp.status
    /\ resp.status = "completed" =>
         list[i].songs = (IF IsSet(resp.songs) THEN resp.songs ELSE Some(<<>>))
    /\ resp.status = "failed" =>
         (list[i].error = resp.error \/ list[i].error = Some(DefaultError))

\* C11: a terminal update of either poller for an item that already shows
\* that terminal state with the same data leaves the history in memory and
\* the persisted list as they are.
C11_TerminalUpdateIdempotent ==
  [][/\ \A g \in DOMAIN gens : \A resp \in Responses(gens[g].taskId) :
          (/\ PollResp(g, resp)
           /\ IsTerminal(resp)
           /\ AlreadyIn(history, gens[g].taskId, resp)
           /\ AlreadyIn(Stored, gens[g].taskId, resp))
          => (history' = history /\ Stored' = Stored)
     /\ \A c \in DOMAIN cycles : \A i \in cycles[c].waiting :
          \A resp \in Responses(cycles[c].out[i].id) :
            (/\ RecResp(c, i, resp)
             /\ IsTerminal(resp)
             /\ ev'.wrote
             /\ AlreadyIn(history, cycles[c].out[i].id, resp)
             /\ AlreadyIn(Stored, cycles[c].out[i].id, resp))
            => (history' = history /\ Stored' = Stored)]_vars

\* C12: every item with status completed, in memory and persisted, has its
\* songs field set to a list.
C12_CompletedHasSongs ==
  /\ \A i \in DOMAIN history : history[i].status = "completed" => IsSet(history[i].songs)
  /\ \A i \in DOMAIN Stored : Stored[i].status = "completed" => IsSet(Stored[i].songs)

CompletedAtOk(list) ==
  \A i \in DOMAIN list :
    list[i].status = "completed" =>
      /\ IsSet(list[i].completedAt)
      /\ ValOf(list[i].completedAt) >= list[i].timestamp

\* C13: every item with status completed, in memory and persisted, has
\* completedAt set and not before its timestamp.
C13_CompletedAtNotBeforeTimestamp == CompletedAtOk(history) /\ CompletedAtOk(Stored)

\* C14: every item with status failed, in memory and persisted, has its error
\* field set.
C14_FailedHasError ==
  /\ \A i \in DOMAIN history : history[i].status = "failed" => IsSet(history[i].error)
  /\ \A i \in DOMAIN Stored : Stored[i].status = "failed" => IsSet(Stored[i].error)

NoDuplicateId(list) ==
  \A i, j \in DOMAIN list : list[i].id = list[j].id => i = j

\* C15: no two items of the history, in memory or persisted, have the same id.
C15_IdsUnique == NoDuplicateId(history) /\ NoDuplicateId(Stored)

\* C16: updateHistoryItem for an id that no item of the history has leaves the
\* history in memory and the persisted list as they were.
C16_UpdateMissingIsNoop ==
  [][\A g \in DOMAIN gens : \A resp \in Responses(gens[g].taskId) :
       (/\ PollResp(g, resp)
        /\ IsTerminal(resp)
        /\ phase = "mounted"
        /\ gens[g].taskId \notin Ids(history)
        /\ gens[g].taskId \notin Ids(Stored))
       => (history' = history /\ Stored' = Stored)]_vars

RECURSIVE Without(_, _)
Without(list, id) ==
  IF list = <<>> THEN <<>>
  ELSE (IF Head(list).id = id THEN <<>> ELSE <<Head(list)>>) \o Without(Tail(list), id)

C18_CorruptLoadClearsKey ==
  [][(Mount /\ storage.kind \in {"empty", "corrupt", "notlist"}) =>
       (history' = <<>> /\ storage' = NoKey /\ notification' = "none")]_vars

Saved(list) ==
  \A i \in DOMAIN list : list[i].status \in ValidStatus /\ list[i].timestamp # 0

Coerced(status) == IF status \in ValidStatus THEN status ELSE "pending"

\* C19: a step that changes the persisted value or the history, other than the
\* load, is a call of updateHistory: after it the persisted value is a list
\* whose items all have a status in {pending, completed, failed} and a
\* timestamp, and the history in memory is that list; an item the caller
\* passed on as it found it keeps a valid status and gets pending for a missing
\* or unknown one.
C19_SaveNormalizes ==
  [][/\ (phase' = phase /\ (storage' # storage \/ history' # history)) =>
          /\ Parses(storage')
          /\ Saved(Stored')
          /\ phase = "mounted" => history' = Stored'
     /\ (ev'.op = "recon" /\ ev'.wrote) =>
          \A c \in DOMAIN cycles : \A i \in cycles[c].waiting :
            \A resp \in Responses(cycles[c].out[i].id) :
              RecResp(c, i, resp) =>
                /\ Len(Stored') = Len(cycles[c].out)
                /\ \A k \in DOMAIN cycles[c].out \ cycles[c].asked :
                     Stored'[k].status = Coerced(cycles[c].out[k].status)
     /\ Len(history') < Len(history) =>
          \A id \in Ids(history) :
            Remove(id) =>
              /\ Len(Stored') = Len(Without(history, id))
              /\ \A k \in DOMAIN Stored' :
                   Stored'[k].status = Coerced(Without(history, id)[k].status)]_vars

\* C19 witness: the persisted list, equal to the history in memory, holds an
\* item of the earlier version, pending and with a timestamp later than any it
\* started with: a save gave it both.
C19_Witness ==
  /\ phase = "mounted"
  /\ Stored = history
  /\ \E i \in DOMAIN Stored :
       /\ Stored[i].id \in {OldId, ""}
       /\ Stored[i].status = "pending"
       /\ Stored[i].timestamp > 1

\* C20: addToHistory leaves, in memory and persisted, the new item, pending
\* with no completedAt, in front of the list as it was just before the add.
C20_AddPrependsToCurrent ==
  [][\A g \in DOMAIN gens :
       (PostOk(g) /\ phase = "mounted") =>
         /\ history' = <<NewItem(TaskIds[issued + 1], gens[g].startTime)>> \o history
         /\ Stored' = history']_vars

\* C21: clearHistory leaves the history in memory empty, the persisted list
\* empty and the set of already-notified task ids empty.
C21_ClearEmptiesAll ==
  [][Clear =>
       /\ history' = <<>>
       /\ storage' = Stringify(<<>>)
       /\ notified' = {}]_vars

\* C21 witness: the list was cleared after the submission loop had played the
\* tone for a task and noted its id.
C21_Witness ==
  /\ ev.op = "clear"
  /\ notification = "success"
  /\ history = <<>>
  /\ notified = {}

\* C22: a status check that returns a status other than completed or failed,
\* or that fails, makes neither poller write: the answer of the submission's
\* loop changes no list and no notification; the answer of the
\* reconciliation poller changes no notification, changes no list unless
\* another item of the same cycle has resolved, and then the list written
\* holds the queried item as it was read, still pending.
NotTerminal(resp) == ~(resp.ok /\ resp.status \in {"completed", "failed"})
C22_NonTerminalWritesNothing ==
  [][/\ \A g \in DOMAIN gens :
          gens[g].inflight > 0 =>
            \A resp \in Responses(gens[g].taskId) :
              (NotTerminal(resp) /\ PollResp(g, resp)) =>
                UNCHANGED <<history, storage, notification, pendingCount, isLoading>>
     /\ \A c \in DOMAIN cycles : \A i \in cycles[c].waiting :
          \A resp \in Responses(cycles[c].out[i].id) :
            (NotTerminal(resp) /\ RecResp(c, i, resp)) =>
              /\ notification' = notification
              /\ ~cycles[c].hasUpdates => UNCHANGED <<history, storage>>
              /\ storage' # storage =>
                    /\ i \in DOMAIN Stored'
                    /\ Stored'[i] = NormalizeItem(cycles[c].out[i], now)
                    /\ Stored'[i].status = "pending"]_vars

\* C22 witness: a reconciliation cycle has received an answer that resolved
\* nothing and still awaits another; the items it asked about are pending in
\* memory and under the key.
C22_Witness ==
  \E c \in DOMAIN cycles :
    /\ cycles[c].waiting # cycles[c].asked
    /\ cycles[c].waiting # {}
    /\ ~cycles[c].hasUpdates
    /\ history = cycles[c].out
    /\ Parses(storage) /\ Stored = cycles[c].out
    /\ \A i \in cycles[c].asked : history[i].status = "pending"

\* C23: when the POST is rejected, generateMusic raises an error
\* notification and sets isLoading back to false; it adds no history entry,
\* starts no polling loop and leaves pendingCount as it was.
Polling == {g \in DOMAIN gens : gens[g].st = "polling"}
C23_PostFailureAddsNothing ==
  [][\A g \in DOMAIN gens :
       (gens[g].st = "posting" /\ phase = "mounted" /\ PostFail(g)) =>
         /\ notification' = "error"
         /\ isLoading' = FALSE
         /\ UNCHANGED <<history, storage, pendingCount, issued, timers, cycles>>
         /\ Len(gens') = Len(gens) - 1
         /\ Cardinality(Polling') = Cardinality(Polling)]_vars

\* C23 witness: the only submission of the session was rejected: the error
\* notification is up, the button is free again and nothing was added to the
\* list loaded from the key.
C23_Witness ==
  /\ phase = "mounted"
  /\ issued = 0
  /\ gens = <<>>
  /\ notification = "error"
  /\ ~isLoading
  /\ pendingCount = 0
  /\ history # <<>>
  /\ Stored = history

\* C24: with the feature flag false, generateMusic sets the maintenance
\* notification and returns: no request goes out and the history, the key,
\* isLoading and pendingCount are as they were.
C24_DisabledOnlyNotifies ==
  [][\A voiceType \in VoiceTypes :
       (phase = "mounted" /\ GenerateMusic(FALSE, voiceType)) =>
         /\ notification' = "maintenance"
         /\ UNCHANGED <<history, storage, isLoading, pendingCount, gens, cycles,
                        issued, remote, timers>>]_vars

\* C24 witness: the maintenance notification is up over a list with a
\* pending item; nothing is being submitted.
C24_Witness ==
  /\ phase = "mounted"
  /\ notification = "maintenance"
  /\ gens = <<>>
  /\ ~isLoading
  /\ pendingCount = 0
  /\ HasPending(history)
  /\ Stored = history

\* C25: for every selected voice type the request's tags and negative_tags
\* are disjoint, one the female tag list and the other the male one:
\* "female" gives the female tags and the male negative tags, "male" the
\* reverse.
FemaleText == "female_vocals,female_voice,female_singer"
MaleText == "male_vocals,male_voice,male_singer"
Elems(list) == {list[i] : i \in DOMAIN list}
C25_VoiceTagsExclusive ==
  \A g \in Posting :
    LET r == gens[g].req
    IN /\ r.voiceType = "female" =>
            r.tags = FemaleText /\ r.negative_tags = MaleText
       /\ r.voiceType = "male" =>
            r.tags = MaleText /\ r.negative_tags = FemaleText
       /\ {r.tags, r.negative_tags} = {FemaleText, MaleText}
       /\ Elems(VoiceTags(r.voiceType)) \cap Elems(NegativeTags(r.voiceType)) = {}

\* C25 witness: a request built for the voice type "female" is awaiting the
\* answer of its POST.
C25_Witness ==
  \E g \in Posting :
    /\ gens[g].req.voiceType = "female"
    /\ gens[g].req.tags = FemaleText
    /\ gens[g].req.negative_tags = MaleText

\* C26: every reconciliation cycle that starts queries every item that is
\* pending in the history, the items restored at load with a missing or
\* unknown persisted status included: the first render with a pending item
\* starts a cycle, and a cycle that starts asks about each pending item.
AskedIds(cyc) == {cyc.out[i].id : i \in cyc.asked}
PendingIds(list) == {list[i].id : i \in PendingIdx(list)}
C26_EveryPendingQueried ==
  [][/\ (phase = "fresh" /\ phase' = "mounted" /\ HasPending(history')) =>
          Len(cycles') = Len(cycles) + 1
     /\ (phase' = "mounted" /\ Len(cycles') > Len(cycles)) =>
          PendingIds(history') \subseteq AskedIds(cycles'[Len(cycles')])]_vars

\* C27: an item removed by removeFromHistory or clearHistory does not
\* reappear, in memory or under the key: the step after a removal does not
\* bring the removed id back, and the step after a clear brings back no id
\* of a task the service already had.
AfterIds == Ids(history') \cup (IF Parses(storage') THEN Ids(Stored') ELSE {})
C27_RemovedStaysRemoved ==
  [][/\ (ev.op = "remove" /\ ev.id \notin Ids(history)) => ev.id \notin AfterIds
     /\ (ev.op = "clear" /\ history = <<>>) =>
          \A id \in AfterIds : id \in DOMAIN remote /\ remote[id] = NoTask]_vars

\* C28: pendingCount is never negative and, while the page is up, equals the
\* number of submissions whose polling loop has started and has not yet seen
\* a terminal status.
C28_PendingCountCountsLoops ==
  /\ pendingCount >= 0
  /\ phase = "mounted" => pendingCount = Cardinality(Polling)

\* C29: whenever no item of the history is pending and no POST is awaited,
\* the generate button is enabled: isLoading is false and pendingCount is 0.
C29_IdleMeansEnabled ==
  (phase = "mounted" /\ ~HasPending(history) /\ Posting = {}) =>
    (GenerateEnabled /\ ~isLoading /\ pendingCount = 0)

\* C30: at most one interval of the reconciliation effect is active at any
\* time, and none once the component is unmounted.
C30_AtMostOneTimer ==
  /\ timers <= 1
  /\ phase # "mounted" => timers = 0

\* C30 witness: the user has just removed an item and another one is still
\* pending: the effect ran again for the new history and one interval is
\* active.
C30_Witness ==
  /\ phase = "mounted"
  /\ ev.op = "remove"
  /\ HasPending(history)
  /\ intervalId
  /\ timers = 1

====
